---- MODULE Spec2Model ----
(***************************************************************************)
(* Model of the llama.cpp server supervisor (LlamaCppServer) of            *)
(* llm_interface: start_server, connect_with_timeouts, test_connection,    *)
(* check_server_config, kill_server_process, kill_server,                  *)
(* kill_all_servers and Drop, together with the operating-system processes *)
(* and the network endpoint they act on.                                   *)
(*                                                                         *)
(* One Supervisor runs one call at a time (&mut self); pc is its position  *)
(* in the code.  The processes bind the endpoint, load the model and exit  *)
(* on their own, interleaved with the steps of the Supervisor.             *)
(*                                                                         *)
(* The device inventory (CudaDeviceMap of devices/cuda.rs) is built before *)
(* the Supervisor exists; it has its own specification, DevSpec, in which  *)
(* the Supervisor stands still, as the inventory does in Spec.             *)
(***************************************************************************)
EXTENDS Integers, FiniteSets, Sequences, TLC

\* ---------------------------------------------------------------- bounds
\* number of processes one Supervisor may spawn in a behaviour
MaxSpawns == 2

\* ordinals the hardware has
MaxHw == 2
\* length of use_cuda_devices
MaxReqLen == 2
\* ordinals get_all_cuda_devices is followed through
MaxOrdinal == 103

\* ------------------------------------------------------------- constants
STATUS_CHECK_TIME_MS == 650
STATUS_RETRY_TIMEOUT_MS == 200
START_UP_CHECK_TIME_S == 30
START_UP_RETRY_TIME_S == 5
\* conn_attempts passed by connect_with_timeouts to check_server_config
CONN_ATTEMPTS == 3
\* std::thread::sleep(Duration::from_secs(1)) after a kill, in ms
KILL_SLEEP_MS == 1000
\* sinceKill is not counted beyond the two sleeps that end kill_server_process
\* and the status check of the next start_server
SettleCap == 3000

\* ------------------------------------------------------------ identifiers
Models == {"m1", "m2"}
\* std::env::var(..).ok() is None, or the variable is absent
Unset == "UNSET"
\* a value that is not valid Unicode: std::env::var gives Err(NotUnicode)
NotUnicode == "NOT_UNICODE"
EnvValues == {Unset, "", "0", NotUnicode}
\* server_process: None
NoPid == -1
\* a ./llama-server left behind by an earlier supervisor
OrphanPid == 0
OwnPids == 1..MaxSpawns
Pids == {OrphanPid} \cup OwnPids

VARIABLES
    pc,              \* position of the Supervisor
    phase,           \* "status" or "startup": which connect_with_timeouts call
    elapsed,         \* ms since connect_with_timeouts was entered (start_time)
    attempts,        \* check_server_config: attempts
    tcResult,        \* value returned by test_connection
    idResult,        \* value returned by check_server_config
    probeResult,     \* value returned by connect_with_timeouts
    kret,            \* where kill_server_process returns to
    server_process,  \* self.server_process (pid or NoPid)
    local_model_path,\* self.local_config.device_config.local_model_path
    use_gpu,         \* self.local_config.device_config.use_gpu
    env,             \* CUDA_VISIBLE_DEVICES of this OS process
    original,        \* local variable original of start_server
    pstate,          \* state of each process
    pmodel,          \* model each process serves (--model)
    listener,        \* pid that holds the endpoint, or NoPid
    nextPid,         \* pid of the next spawned process
    orphanProtected, \* the OS refuses signals to the orphan (other owner)
    result,          \* how the last start_server ended
    lastOp,          \* last operation started on the Supervisor
    status1,         \* probe result of the status check of the last start_server
    id1,             \* check_server_config result of that status check
    callSpawns,      \* processes spawned by the operation in progress
    callKills,       \* kill_server_process runs of the operation in progress
    killsAtSpawn,    \* callKills at the moment of the (last) spawn
    handle0,         \* server_process when the operation began
    env0,            \* env when the operation began
    envAtSpawn,      \* env inherited by the last spawned child
    sinceKill,       \* ms slept since the last termination signal
    sigRefused,      \* the OS refused a signal of the operation in progress
    killResult,      \* how the last kill_server_process ended
    posts,           \* requests check_server_config has sent in this probe
    resModel,        \* res.model of the Ok response of this probe, or "none"
    callPosts,       \* requests sent by the start_server in progress
    callProbes       \* connect_with_timeouts calls of the start_server in progress

supVars  == <<pc, phase, elapsed, attempts, tcResult, idResult, probeResult, kret,
              server_process, local_model_path, use_gpu>>
envVars  == <<env, original>>
procVars == <<pstate, pmodel, listener, nextPid, orphanProtected>>
histVars == <<result, lastOp, status1, id1, callSpawns, callKills, killsAtSpawn,
              handle0, env0, envAtSpawn, sinceKill>>
killVars == <<sigRefused, killResult>>
reqVars  == <<posts, resModel>>
callVars == <<callPosts, callProbes>>

VARIABLES
    dpc,               \* position in CudaDeviceMap::initialize
    hwMem,             \* memory_info.total of each ordinal of the hardware, MiB
    device_count,      \* nvml.device_count()
    overflowChecks,    \* the build panics on integer overflow (debug profile)
    use_cuda_devices,  \* self.use_cuda_devices
    main_gpu,          \* self.main_gpu
    mainReq,           \* self.main_gpu as given to CudaDeviceMap::new
    error_on_gpu_error,\* self.error_on_gpu_error
    cuda_devices,      \* self.cuda_devices
    total_vram_bytes,  \* self.total_vram_bytes, MiB
    ordinal,           \* get_all_cuda_devices: ordinal
    qidx,              \* initialize: position of the for loop in use_cuda_devices
    warned,            \* get_all_cuda_devices has logged its warning
    dresult,           \* value returned by initialize
    queried,           \* ordinals handed to CudaDevice::new, in order
    gpu_devices        \* value returned by to_generic_gpu_devices

\* a second LlamaCppServer of the same OS process, with use_gpu set and an
\* endpoint of its own
VARIABLES
    pc2,             \* position of the second Supervisor
    result2,         \* how its start_server ended
    envAtSpawn2,     \* env inherited by the child it spawned
    envBefore        \* env before either Supervisor was called

devVars == <<dpc, hwMem, device_count, overflowChecks, use_cuda_devices, main_gpu,
             mainReq, error_on_gpu_error, cuda_devices, total_vram_bytes, ordinal,
             qidx, warned, dresult, queried, gpu_devices>>

duoVars == <<pc2, result2, envAtSpawn2, envBefore>>

vars == <<supVars, envVars, procVars, histVars, killVars, reqVars, callVars,
          devVars, duoVars>>

\* ---------------------------------------------------------------- helpers
Min(a, b) == IF a < b THEN a ELSE b

Alive(p) == pstate[p] \in {"starting", "listening", "ready"}

\* Duration of the first argument of connect_with_timeouts, in ms
TestDuration(ph) ==
    IF ph = "status" THEN STATUS_CHECK_TIME_MS ELSE START_UP_CHECK_TIME_S * 1000

\* Duration of the second argument of connect_with_timeouts, in ms
RetryTimeout(ph) ==
    IF ph = "status" THEN STATUS_RETRY_TIMEOUT_MS ELSE START_UP_RETRY_TIME_S * 1000

\* std::net::TcpStream::connect(&self.path) succeeds
ConnectOk == listener # NoPid

\* client.post("/completion", ..): the served model, or "ERR"
PostCompletion ==
    IF listener # NoPid /\ pstate[listener] = "ready" THEN pmodel[listener] ELSE "ERR"

\* check_server_config, the match on an Ok response
CompareModel(requested, served) ==
    IF requested = served THEN "RunningRequested" ELSE "Running"

\* connect_with_timeouts: what it makes of check_server_config's value
ConnectResult(id) ==
    IF id = "RunningRequested" THEN "RunningRequested" ELSE "Stopped"

\* std::env::var("CUDA_VISIBLE_DEVICES").ok(): None for a variable that is
\* absent or whose value is not valid Unicode
EnvVarOk(v) == IF v = NotUnicode THEN Unset ELSE v

\* start_time taken anew in every iteration: the loop never sees time pass
SleepElapsedRestarted(e, retry) == e

\* time slept in test_connection after a failed connect
SleepElapsed(e, retry) == e + retry

\* a termination signal reaches process p
Signalled(ps, p) ==
    IF ps[p] \in {"starting", "listening", "ready"}
          /\ ~(p = OrphanPid /\ orphanProtected)
    THEN [ps EXCEPT ![p] = "dead"] ELSE ps

\* the kill command exits non-zero: the OS refuses the signal to p
Refused(ps, p) ==
    ps[p] \in {"starting", "listening", "ready"} /\ p = OrphanPid /\ orphanProtected

\* pgrep -f '^./llama-server'
Pgrep == {p \in Pids : Alive(p)}

\* the signals of kill_all_servers, one per line of pgrep's output
SweepAll(ps) ==
    [p \in Pids |-> IF p \in Pgrep THEN Signalled(ps, p)[p] ELSE ps[p]]

ListenerAfter(ps) ==
    IF listener # NoPid /\ ps[listener] = "dead" THEN NoPid ELSE listener

\* ------------------------------------------------------------------- Init
\* Option<u32>: None
NoOrdinal == -1

\* the inventory before CudaDeviceMap::new, where Spec leaves it
DevIdle ==
    /\ dpc = "idle"
    /\ hwMem = <<>>
    /\ device_count = 0
    /\ overflowChecks = FALSE
    /\ use_cuda_devices = <<>>
    /\ main_gpu = NoOrdinal
    /\ mainReq = NoOrdinal
    /\ error_on_gpu_error = TRUE
    /\ cuda_devices = <<>>
    /\ total_vram_bytes = 0
    /\ ordinal = 0
    /\ qidx = 1
    /\ warned = FALSE
    /\ dresult = "none"
    /\ queried = <<>>
    /\ gpu_devices = <<>>

\* LlamaCppServer::new, with the processes and the environment it meets
SupInit ==
    /\ pc = "idle"
    /\ phase = "status"
    /\ elapsed = 0
    /\ attempts = 0
    /\ tcResult = "none"
    /\ idResult = "none"
    /\ probeResult = "none"
    /\ kret = "none"
    /\ server_process = NoPid
    /\ local_model_path = "m1"
    /\ use_gpu \in BOOLEAN
    /\ env \in EnvValues
    \* with use_gpu the value is never read: unset and one set value are kept
    /\ (use_gpu => env \in {Unset, "0"})
    /\ original = Unset
    /\ \E o \in {"none", "ready"}, m \in Models, prot \in BOOLEAN :
          /\ pstate = [p \in Pids |-> IF p = OrphanPid THEN o ELSE "none"]
          /\ pmodel = [p \in Pids |-> m]
          /\ listener = IF o = "ready" THEN OrphanPid ELSE NoPid
          /\ orphanProtected = (prot /\ o = "ready")
          /\ (o = "none" => m = "m1")
    /\ nextPid = 1
    /\ result = "none"
    /\ lastOp = "none"
    /\ status1 = "none"
    /\ id1 = "none"
    /\ callSpawns = 0
    /\ callKills = 0
    /\ killsAtSpawn = 0
    /\ handle0 = NoPid
    /\ env0 = env
    /\ envAtSpawn = Unset
    /\ sinceKill = SettleCap
    /\ sigRefused = FALSE
    /\ killResult = "none"
    /\ posts = 0
    /\ resModel = "none"
    /\ callPosts = 0
    /\ callProbes = 0

\* no second Supervisor exists
DuoIdle ==
    /\ pc2 = "idle"
    /\ result2 = "none"
    /\ envAtSpawn2 = Unset
    /\ envBefore = Unset

Init == SupInit /\ DevIdle /\ DuoIdle

\* ------------------------------------------------- start_server, entry
\* the caller invokes start_server (ensure_running)
StartServer ==
    /\ pc = "idle"
    /\ nextPid <= MaxSpawns
    /\ pc' = "test_connection"
    /\ phase' = "status"
    /\ elapsed' = 0
    /\ attempts' = 0
    /\ tcResult' = "none"
    /\ idResult' = "none"
    /\ probeResult' = "none"
    /\ result' = "none"
    /\ lastOp' = "start"
    /\ status1' = "none"
    /\ id1' = "none"
    /\ callSpawns' = 0
    /\ callKills' = 0
    /\ killsAtSpawn' = 0
    /\ handle0' = server_process
    /\ env0' = env
    /\ UNCHANGED <<kret, server_process, local_model_path, use_gpu, envVars,
                   procVars, envAtSpawn, sinceKill>>
    /\ sigRefused' = FALSE
    /\ killResult' = "none"
    /\ posts' = 0
    /\ resModel' = "none"
    /\ callPosts' = 0
    /\ callProbes' = 1
    /\ UNCHANGED duoVars
    /\ UNCHANGED devVars

\* test_connection followed by check_server_config whatever it returned
TestConnectionThenIdentity ==
    /\ pc = "test_connection"
    /\ IF elapsed < TestDuration(phase)
       THEN IF ConnectOk
            THEN /\ tcResult' = "Running"
                 /\ attempts' = 0
                 /\ pc' = "check_server_config"
                 /\ UNCHANGED <<elapsed, idResult, probeResult, sinceKill>>
            ELSE /\ elapsed' = SleepElapsed(elapsed, RetryTimeout(phase))
                 /\ sinceKill' = Min(SettleCap, sinceKill + RetryTimeout(phase))
                 /\ UNCHANGED <<pc, attempts, tcResult, idResult, probeResult>>
       ELSE /\ tcResult' = "Stopped"
            /\ attempts' = 0
            /\ pc' = "check_server_config"
            /\ UNCHANGED <<elapsed, idResult, probeResult, sinceKill>>
    /\ UNCHANGED <<phase, kret, server_process, local_model_path, use_gpu, envVars,
                   procVars, result, lastOp, status1, id1, callSpawns, callKills,
                   killsAtSpawn, handle0, env0, envAtSpawn>>
    /\ UNCHANGED killVars
    /\ UNCHANGED reqVars
    /\ UNCHANGED callVars
    /\ UNCHANGED duoVars
    /\ UNCHANGED devVars

\* ------------------------------------------------------ test_connection
\* one evaluation of the while condition and, if it holds, one connect
TestConnection ==
    /\ pc = "test_connection"
    /\ IF elapsed < TestDuration(phase)
       THEN IF ConnectOk
            THEN /\ tcResult' = "Running"
                 /\ attempts' = 0
                 /\ pc' = "check_server_config"
                 /\ UNCHANGED <<elapsed, idResult, probeResult, sinceKill>>
            ELSE /\ elapsed' = SleepElapsed(elapsed, RetryTimeout(phase))
                 /\ sinceKill' = Min(SettleCap, sinceKill + RetryTimeout(phase))
                 /\ UNCHANGED <<pc, attempts, tcResult, idResult, probeResult>>
       ELSE /\ tcResult' = "Stopped"
            /\ idResult' = "none"
            /\ probeResult' = "Stopped"
            /\ pc' = "match"
            /\ UNCHANGED <<elapsed, attempts, sinceKill>>
    /\ UNCHANGED <<phase, kret, server_process, local_model_path, use_gpu, envVars,
                   procVars, result, lastOp, status1, id1, callSpawns, callKills,
                   killsAtSpawn, handle0, env0, envAtSpawn>>
    /\ UNCHANGED killVars
    /\ UNCHANGED reqVars
    /\ UNCHANGED callVars
    /\ UNCHANGED duoVars
    /\ UNCHANGED devVars

\* the while loop going round once more: attempts <= conn_attempts
CheckServerConfigOneMore ==
    /\ pc = "check_server_config"
    /\ IF attempts <= CONN_ATTEMPTS
       THEN IF PostCompletion # "ERR"
            THEN /\ idResult' = CompareModel(local_model_path, PostCompletion)
                 /\ probeResult' = ConnectResult(idResult')
                 /\ pc' = "match"
                 /\ posts' = posts + 1
                 /\ callPosts' = callPosts + 1
                 /\ resModel' = PostCompletion
                 /\ UNCHANGED <<attempts, elapsed, sinceKill>>
            ELSE /\ attempts' = attempts + 1
                 /\ elapsed' = elapsed + RetryTimeout(phase)
                 /\ sinceKill' = Min(SettleCap, sinceKill + RetryTimeout(phase))
                 /\ posts' = posts + 1
                 /\ callPosts' = callPosts + 1
                 /\ UNCHANGED <<pc, idResult, probeResult, resModel>>
       ELSE /\ idResult' = "Stopped"
            /\ probeResult' = ConnectResult("Stopped")
            /\ pc' = "match"
            /\ UNCHANGED <<attempts, elapsed, sinceKill, posts, resModel, callPosts>>
    /\ UNCHANGED <<phase, tcResult, kret, server_process, local_model_path, use_gpu,
                   envVars, procVars, result, lastOp, status1, id1, callSpawns,
                   callKills, killsAtSpawn, handle0, env0, envAtSpawn, callProbes>>
    /\ UNCHANGED killVars
    /\ UNCHANGED duoVars
    /\ UNCHANGED devVars

\* --------------------------------------------------- check_server_config
\* one evaluation of the while condition and, if it holds, one request;
\* on return connect_with_timeouts turns the value into its own
CheckServerConfig ==
    /\ pc = "check_server_config"
    /\ IF attempts < CONN_ATTEMPTS
       THEN IF PostCompletion # "ERR"
            THEN /\ idResult' = CompareModel(local_model_path, PostCompletion)
                 /\ probeResult' = ConnectResult(idResult')
                 /\ pc' = "match"
                 /\ posts' = posts + 1
                 /\ callPosts' = callPosts + 1
                 /\ resModel' = PostCompletion
                 /\ UNCHANGED <<attempts, elapsed, sinceKill>>
            ELSE /\ attempts' = attempts + 1
                 /\ elapsed' = elapsed + RetryTimeout(phase)
                 /\ sinceKill' = Min(SettleCap, sinceKill + RetryTimeout(phase))
                 /\ posts' = posts + 1
                 /\ callPosts' = callPosts + 1
                 /\ UNCHANGED <<pc, idResult, probeResult, resModel>>
       ELSE /\ idResult' = "Stopped"
            /\ probeResult' = ConnectResult("Stopped")
            /\ pc' = "match"
            /\ UNCHANGED <<attempts, elapsed, sinceKill, posts, resModel, callPosts>>
    /\ UNCHANGED <<phase, tcResult, kret, server_process, local_model_path, use_gpu,
                   envVars, procVars, result, lastOp, status1, id1, callSpawns,
                   callKills, killsAtSpawn, handle0, env0, envAtSpawn, callProbes>>
    /\ UNCHANGED killVars
    /\ UNCHANGED duoVars
    /\ UNCHANGED devVars

\* the match with the RunningRequested arm falling through to the kill
MatchStatusKills ==
    /\ pc = "match"
    /\ phase = "status"
    /\ status1' = probeResult
    /\ id1' = idResult
    /\ CASE probeResult = "Stopped" ->
                /\ pc' = "override_env"
                /\ UNCHANGED <<kret, callKills>>
         [] probeResult \in {"Running", "RunningRequested"} ->
                /\ pc' = "kill_tracked"
                /\ kret' = "override_env"
                /\ callKills' = callKills + 1
    /\ UNCHANGED <<phase, elapsed, attempts, tcResult, idResult, probeResult,
                   server_process, local_model_path, use_gpu, envVars, procVars,
                   result, lastOp, callSpawns, killsAtSpawn, handle0, env0,
                   envAtSpawn, sinceKill>>
    /\ UNCHANGED killVars
    /\ UNCHANGED reqVars
    /\ UNCHANGED callVars
    /\ UNCHANGED duoVars
    /\ UNCHANGED devVars

\* --------------------------------- start_server, match on the status check
MatchStatus ==
    /\ pc = "match"
    /\ phase = "status"
    /\ status1' = probeResult
    /\ id1' = idResult
    /\ CASE probeResult = "RunningRequested" ->
                /\ result' = "Ok"
                /\ pc' = "idle"
                /\ UNCHANGED <<kret, callKills>>
         [] probeResult = "Stopped" ->
                /\ pc' = "override_env"
                /\ UNCHANGED <<result, kret, callKills>>
         [] probeResult = "Running" ->
                /\ pc' = "kill_tracked"
                /\ kret' = "override_env"
                /\ callKills' = callKills + 1
                /\ UNCHANGED result
    /\ UNCHANGED <<phase, elapsed, attempts, tcResult, idResult, probeResult,
                   server_process, local_model_path, use_gpu, envVars, procVars,
                   lastOp, callSpawns, killsAtSpawn, handle0, env0, envAtSpawn,
                   sinceKill>>
    /\ UNCHANGED killVars
    /\ UNCHANGED reqVars
    /\ UNCHANGED callVars
    /\ UNCHANGED duoVars
    /\ UNCHANGED devVars

\* the override made whatever use_gpu is
OverrideEnvAlways ==
    /\ pc = "override_env"
    /\ IF TRUE
       THEN /\ original' = EnvVarOk(env)
            /\ env' = ""
       ELSE /\ original' = Unset
            /\ UNCHANGED env
    /\ pc' = "spawn"
    /\ UNCHANGED <<phase, elapsed, attempts, tcResult, idResult, probeResult, kret,
                   server_process, local_model_path, use_gpu, procVars, histVars>>
    /\ UNCHANGED killVars
    /\ UNCHANGED reqVars
    /\ UNCHANGED callVars
    /\ UNCHANGED duoVars
    /\ UNCHANGED devVars

\* ------------------- start_server, the override of CUDA_VISIBLE_DEVICES
OverrideEnv ==
    /\ pc = "override_env"
    /\ IF ~use_gpu
       THEN /\ original' = EnvVarOk(env)
            /\ env' = ""
       ELSE /\ original' = Unset
            /\ UNCHANGED env
    /\ pc' = "spawn"
    /\ UNCHANGED <<phase, elapsed, attempts, tcResult, idResult, probeResult, kret,
                   server_process, local_model_path, use_gpu, procVars, histVars>>
    /\ UNCHANGED killVars
    /\ UNCHANGED reqVars
    /\ UNCHANGED callVars
    /\ UNCHANGED duoVars
    /\ UNCHANGED devVars

\* the spawned Child dropped instead of stored in self.server_process
SpawnBackendNoRecord ==
    /\ pc = "spawn"
    /\ \E outcome \in {"ok", "err", "panic"} :
         CASE outcome = "ok" ->
                /\ pstate' = [pstate EXCEPT ![nextPid] = "starting"]
                /\ pmodel' = [pmodel EXCEPT ![nextPid] = local_model_path]
                /\ UNCHANGED server_process
                /\ nextPid' = nextPid + 1
                /\ callSpawns' = callSpawns + 1
                /\ killsAtSpawn' = callKills
                /\ envAtSpawn' = env
                /\ pc' = "test_connection"
                /\ phase' = "startup"
                /\ elapsed' = 0
                /\ attempts' = 0
                /\ tcResult' = "none"
                /\ idResult' = "none"
                /\ probeResult' = "none"
                /\ posts' = 0
                /\ resModel' = "none"
                /\ callProbes' = callProbes + 1
                /\ UNCHANGED result
           [] outcome = "err" ->
                /\ result' = "Err"
                /\ pc' = "idle"
                /\ UNCHANGED <<pstate, pmodel, server_process, nextPid, callSpawns,
                               killsAtSpawn, envAtSpawn, phase, elapsed, attempts,
                               tcResult, idResult, probeResult, posts, resModel,
                               callProbes>>
           [] outcome = "panic" ->
                /\ result' = "PanicSpawn"
                /\ pc' = "idle"
                /\ UNCHANGED <<pstate, pmodel, server_process, nextPid, callSpawns,
                               killsAtSpawn, envAtSpawn, phase, elapsed, attempts,
                               tcResult, idResult, probeResult, posts, resModel,
                               callProbes>>
    /\ UNCHANGED <<kret, local_model_path, use_gpu, envVars, listener,
                   orphanProtected, lastOp, status1, id1, callKills, handle0, env0,
                   sinceKill, callPosts>>
    /\ UNCHANGED killVars
    /\ UNCHANGED duoVars
    /\ UNCHANGED devVars

\* --------------------------------------------------- start_server_backend
\* "err": get_llama_cpp_path()? fails; "panic": command.spawn().expect(..)
SpawnBackend ==
    /\ pc = "spawn"
    /\ \E outcome \in {"ok", "err", "panic"} :
         CASE outcome = "ok" ->
                /\ pstate' = [pstate EXCEPT ![nextPid] = "starting"]
                /\ pmodel' = [pmodel EXCEPT ![nextPid] = local_model_path]
                /\ server_process' = nextPid
                /\ nextPid' = nextPid + 1
                /\ callSpawns' = callSpawns + 1
                /\ killsAtSpawn' = callKills
                /\ envAtSpawn' = env
                /\ pc' = "test_connection"
                /\ phase' = "startup"
                /\ elapsed' = 0
                /\ attempts' = 0
                /\ tcResult' = "none"
                /\ idResult' = "none"
                /\ probeResult' = "none"
                /\ posts' = 0
                /\ resModel' = "none"
                /\ callProbes' = callProbes + 1
                /\ UNCHANGED result
           [] outcome = "err" ->
                /\ result' = "Err"
                /\ pc' = "idle"
                /\ UNCHANGED <<pstate, pmodel, server_process, nextPid, callSpawns,
                               killsAtSpawn, envAtSpawn, phase, elapsed, attempts,
                               tcResult, idResult, probeResult, posts, resModel,
                               callProbes>>
           [] outcome = "panic" ->
                /\ result' = "PanicSpawn"
                /\ pc' = "idle"
                /\ UNCHANGED <<pstate, pmodel, server_process, nextPid, callSpawns,
                               killsAtSpawn, envAtSpawn, phase, elapsed, attempts,
                               tcResult, idResult, probeResult, posts, resModel,
                               callProbes>>
    /\ UNCHANGED <<kret, local_model_path, use_gpu, envVars, listener,
                   orphanProtected, lastOp, status1, id1, callKills, handle0, env0,
                   sinceKill, callPosts>>
    /\ UNCHANGED killVars
    /\ UNCHANGED duoVars
    /\ UNCHANGED devVars

\* the match with the failure arms panicking without kill_server_process
MatchStartupNoKill ==
    /\ pc = "match"
    /\ phase = "startup"
    /\ CASE probeResult = "RunningRequested" ->
                /\ env' = IF ~use_gpu THEN original ELSE env
                /\ result' = "Ok"
         [] probeResult \in {"Stopped", "Running"} ->
                /\ result' = IF probeResult = "Stopped" THEN "PanicStart"
                                                        ELSE "PanicModel"
                /\ UNCHANGED env
    /\ pc' = "idle"
    /\ UNCHANGED <<phase, elapsed, attempts, tcResult, idResult, probeResult, kret,
                   server_process, local_model_path, use_gpu, original, procVars,
                   lastOp, status1, id1, callSpawns, callKills, killsAtSpawn,
                   handle0, env0, envAtSpawn, sinceKill>>
    /\ UNCHANGED killVars
    /\ UNCHANGED reqVars
    /\ UNCHANGED callVars
    /\ UNCHANGED duoVars
    /\ UNCHANGED devVars

\* the match sending a failed startup back to the spawn
MatchStartupSpawnsAgain ==
    /\ pc = "match"
    /\ phase = "startup"
    /\ CASE probeResult = "RunningRequested" ->
                /\ env' = IF ~use_gpu THEN original ELSE env
                /\ result' = "Ok"
                /\ pc' = "idle"
         [] probeResult \in {"Stopped", "Running"} ->
                /\ pc' = "spawn"
                /\ UNCHANGED <<env, result>>
    /\ UNCHANGED <<phase, elapsed, attempts, tcResult, idResult, probeResult, kret,
                   server_process, local_model_path, use_gpu, original, procVars,
                   lastOp, status1, id1, callSpawns, callKills, killsAtSpawn,
                   handle0, env0, envAtSpawn, sinceKill>>
    /\ UNCHANGED killVars
    /\ UNCHANGED reqVars
    /\ UNCHANGED callVars
    /\ UNCHANGED duoVars
    /\ UNCHANGED devVars

\* -------------------------------- start_server, match on the startup check
MatchStartup ==
    /\ pc = "match"
    /\ phase = "startup"
    /\ CASE probeResult = "RunningRequested" ->
                /\ env' = IF ~use_gpu THEN original ELSE env
                /\ result' = "Ok"
                /\ pc' = "idle"
                /\ UNCHANGED <<kret, callKills>>
         [] probeResult \in {"Stopped", "Running"} ->
                /\ pc' = "kill_tracked"
                /\ kret' = "panic"
                /\ callKills' = callKills + 1
                /\ UNCHANGED <<env, result>>
    /\ UNCHANGED <<phase, elapsed, attempts, tcResult, idResult, probeResult,
                   server_process, local_model_path, use_gpu, original, procVars,
                   lastOp, status1, id1, callSpawns, killsAtSpawn, handle0, env0,
                   envAtSpawn, sinceKill>>
    /\ UNCHANGED killVars
    /\ UNCHANGED reqVars
    /\ UNCHANGED callVars
    /\ UNCHANGED duoVars
    /\ UNCHANGED devVars

\* ----------------------------------------------------- kill_server_process
\* if let Some(server_process): kill_server(pid), then Child::kill()
KillTracked ==
    /\ pc = "kill_tracked"
    /\ IF server_process # NoPid
       THEN /\ pstate' = Signalled(Signalled(pstate, server_process), server_process)
            /\ listener' = ListenerAfter(pstate')
            /\ sinceKill' = 0
       ELSE UNCHANGED <<pstate, listener, sinceKill>>
    /\ pc' = "kill_all_servers"
    /\ UNCHANGED <<phase, elapsed, attempts, tcResult, idResult, probeResult, kret,
                   server_process, local_model_path, use_gpu, envVars, pmodel,
                   nextPid, orphanProtected, result, lastOp, status1, id1,
                   callSpawns, callKills, killsAtSpawn, handle0, env0, envAtSpawn>>
    /\ sigRefused' = (sigRefused \/ (server_process # NoPid /\ Refused(pstate, server_process)))
    /\ UNCHANGED killResult
    /\ UNCHANGED reqVars
    /\ UNCHANGED callVars
    /\ UNCHANGED duoVars
    /\ UNCHANGED devVars

\* kill_all_servers(): pgrep, one kill per pid, sleep
KillAllServers ==
    /\ pc = "kill_all_servers"
    /\ pstate' = SweepAll(pstate)
    /\ listener' = ListenerAfter(pstate')
    /\ sinceKill' = IF Pgrep # {} THEN KILL_SLEEP_MS
                    ELSE Min(SettleCap, sinceKill + KILL_SLEEP_MS)
    /\ pc' = "settle"
    /\ UNCHANGED <<phase, elapsed, attempts, tcResult, idResult, probeResult, kret,
                   server_process, local_model_path, use_gpu, envVars, pmodel,
                   nextPid, orphanProtected, result, lastOp, status1, id1,
                   callSpawns, callKills, killsAtSpawn, handle0, env0, envAtSpawn>>
    /\ sigRefused' = (sigRefused \/ \E p \in Pgrep : Refused(pstate, p))
    /\ UNCHANGED killResult
    /\ UNCHANGED reqVars
    /\ UNCHANGED callVars
    /\ UNCHANGED duoVars
    /\ UNCHANGED devVars

\* kill_server_process returning without its last sleep
SettleNoSleep ==
    /\ pc = "settle"
    /\ UNCHANGED sinceKill
    /\ CASE kret = "override_env" ->
                /\ pc' = "override_env"
                /\ UNCHANGED result
         [] kret = "panic" ->
                /\ pc' = "idle"
                /\ result' = IF probeResult = "Stopped" THEN "PanicStart"
                                                        ELSE "PanicModel"
         [] kret = "terminate" ->
                /\ pc' = "idle"
                /\ UNCHANGED result
         [] kret = "drop" ->
                /\ pc' = "dropped"
                /\ UNCHANGED result
    /\ UNCHANGED <<phase, elapsed, attempts, tcResult, idResult, probeResult, kret,
                   server_process, local_model_path, use_gpu, envVars, procVars,
                   lastOp, status1, id1, callSpawns, callKills, killsAtSpawn,
                   handle0, env0, envAtSpawn>>
    /\ killResult' = "Returned"
    /\ UNCHANGED sigRefused
    /\ UNCHANGED reqVars
    /\ UNCHANGED callVars
    /\ UNCHANGED duoVars
    /\ UNCHANGED devVars

\* the last sleep of kill_server_process and the return to its caller
Settle ==
    /\ pc = "settle"
    /\ sinceKill' = Min(SettleCap, sinceKill + KILL_SLEEP_MS)
    /\ CASE kret = "override_env" ->
                /\ pc' = "override_env"
                /\ UNCHANGED result
         [] kret = "panic" ->
                /\ pc' = "idle"
                /\ result' = IF probeResult = "Stopped" THEN "PanicStart"
                                                        ELSE "PanicModel"
         [] kret = "terminate" ->
                /\ pc' = "idle"
                /\ UNCHANGED result
         [] kret = "drop" ->
                /\ pc' = "dropped"
                /\ UNCHANGED result
    /\ UNCHANGED <<phase, elapsed, attempts, tcResult, idResult, probeResult, kret,
                   server_process, local_model_path, use_gpu, envVars, procVars,
                   lastOp, status1, id1, callSpawns, callKills, killsAtSpawn,
                   handle0, env0, envAtSpawn>>
    /\ killResult' = "Returned"
    /\ UNCHANGED sigRefused
    /\ UNCHANGED reqVars
    /\ UNCHANGED callVars
    /\ UNCHANGED duoVars
    /\ UNCHANGED devVars

\* the caller invokes kill_server_process (terminate)
Terminate ==
    /\ pc = "idle"
    /\ pc' = "kill_tracked"
    /\ kret' = "terminate"
    /\ lastOp' = "kill"
    /\ callSpawns' = 0
    /\ callKills' = 1
    /\ handle0' = server_process
    /\ env0' = env
    /\ UNCHANGED <<phase, elapsed, attempts, tcResult, idResult, probeResult,
                   server_process, local_model_path, use_gpu, envVars, procVars,
                   result, status1, id1, killsAtSpawn, envAtSpawn, sinceKill>>
    /\ sigRefused' = FALSE
    /\ killResult' = "none"
    /\ UNCHANGED reqVars
    /\ UNCHANGED callVars
    /\ UNCHANGED duoVars
    /\ UNCHANGED devVars

\* a Supervisor whose drop does not call kill_server_process
DropNoKill ==
    /\ pc = "idle"
    /\ pc' = "dropped"
    /\ lastOp' = "drop"
    /\ callSpawns' = 0
    /\ callKills' = 0
    /\ handle0' = server_process
    /\ env0' = env
    /\ UNCHANGED <<phase, elapsed, attempts, tcResult, idResult, probeResult, kret,
                   server_process, local_model_path, use_gpu, envVars, procVars,
                   result, status1, id1, killsAtSpawn, envAtSpawn, sinceKill>>
    /\ sigRefused' = FALSE
    /\ killResult' = "none"
    /\ UNCHANGED reqVars
    /\ UNCHANGED callVars
    /\ UNCHANGED duoVars
    /\ UNCHANGED devVars

\* impl Drop for LlamaCppServer
Drop ==
    /\ pc = "idle"
    /\ pc' = "kill_tracked"
    /\ kret' = "drop"
    /\ lastOp' = "drop"
    /\ callSpawns' = 0
    /\ callKills' = 1
    /\ handle0' = server_process
    /\ env0' = env
    /\ UNCHANGED <<phase, elapsed, attempts, tcResult, idResult, probeResult,
                   server_process, local_model_path, use_gpu, envVars, procVars,
                   result, status1, id1, killsAtSpawn, envAtSpawn, sinceKill>>
    /\ sigRefused' = FALSE
    /\ killResult' = "none"
    /\ UNCHANGED reqVars
    /\ UNCHANGED callVars
    /\ UNCHANGED duoVars
    /\ UNCHANGED devVars

\* the owner assigns the pub field local_config between two calls
SetModelPath ==
    /\ pc = "idle"
    /\ \E m \in Models \ {local_model_path} : local_model_path' = m
    /\ UNCHANGED <<pc, phase, elapsed, attempts, tcResult, idResult, probeResult,
                   kret, server_process, use_gpu, envVars, procVars, histVars>>
    /\ UNCHANGED killVars
    /\ UNCHANGED reqVars
    /\ UNCHANGED callVars
    /\ UNCHANGED duoVars
    /\ UNCHANGED devVars

\* ------------------------------------------------- the server processes
\* a started ./llama-server binds the endpoint
ProcBind ==
    \E p \in Pids :
        /\ pstate[p] = "starting"
        /\ listener = NoPid
        /\ pstate' = [pstate EXCEPT ![p] = "listening"]
        /\ listener' = p
        /\ UNCHANGED <<supVars, envVars, pmodel, nextPid, orphanProtected, histVars>>
        /\ UNCHANGED killVars
        /\ UNCHANGED reqVars
        /\ UNCHANGED callVars
        /\ UNCHANGED duoVars
        /\ UNCHANGED devVars

\* the endpoint is taken: the started server exits
ProcBindFail ==
    \E p \in Pids :
        /\ pstate[p] = "starting"
        /\ listener # NoPid
        /\ pstate' = [pstate EXCEPT ![p] = "dead"]
        /\ UNCHANGED <<supVars, envVars, pmodel, listener, nextPid, orphanProtected,
                       histVars>>
        /\ UNCHANGED killVars
        /\ UNCHANGED reqVars
        /\ UNCHANGED callVars
        /\ UNCHANGED duoVars
        /\ UNCHANGED devVars

\* the model is loaded: /completion answers
ProcReady ==
    \E p \in Pids :
        /\ pstate[p] = "listening"
        /\ pstate' = [pstate EXCEPT ![p] = "ready"]
        /\ UNCHANGED <<supVars, envVars, pmodel, listener, nextPid, orphanProtected,
                       histVars>>
        /\ UNCHANGED killVars
        /\ UNCHANGED reqVars
        /\ UNCHANGED callVars
        /\ UNCHANGED duoVars
        /\ UNCHANGED devVars

\* a server exits on its own
ProcExit ==
    \E p \in Pids :
        /\ Alive(p)
        /\ pstate' = [pstate EXCEPT ![p] = "dead"]
        /\ listener' = IF listener = p THEN NoPid ELSE listener
        /\ UNCHANGED <<supVars, envVars, pmodel, nextPid, orphanProtected, histVars>>
        /\ UNCHANGED killVars
        /\ UNCHANGED reqVars
        /\ UNCHANGED callVars
        /\ UNCHANGED duoVars
        /\ UNCHANGED devVars

\* ------------------------------------------------------- specifications
\* the steps of the operation in progress
SupervisorStep ==
    \/ TestConnection
    \/ CheckServerConfig
    \/ MatchStatus
    \/ OverrideEnv
    \/ SpawnBackend
    \/ MatchStartup
    \/ KillTracked
    \/ KillAllServers
    \/ Settle

Next ==
    \/ StartServer
    \/ TestConnection
    \/ CheckServerConfig
    \/ MatchStatus
    \/ OverrideEnv
    \/ SpawnBackend
    \/ MatchStartup
    \/ KillTracked
    \/ KillAllServers
    \/ Settle
    \/ Terminate
    \/ Drop
    \/ SetModelPath
    \/ ProcBind
    \/ ProcBindFail
    \/ ProcReady
    \/ ProcExit

Spec == Init /\ [][Next]_vars

\* a blocking call runs on once entered
FairSpec == Spec /\ WF_vars(SupervisorStep)

TypeOK ==
    /\ pc \in {"idle", "test_connection", "check_server_config", "match",
               "override_env", "spawn", "kill_tracked", "kill_all_servers",
               "settle", "dropped"}
    /\ phase \in {"status", "startup"}
    /\ elapsed \in 0..(START_UP_CHECK_TIME_S * 1000
                          + (CONN_ATTEMPTS + 1) * START_UP_RETRY_TIME_S * 1000)
    /\ attempts \in 0..CONN_ATTEMPTS
    /\ server_process \in {NoPid} \cup OwnPids
    /\ listener \in {NoPid} \cup Pids
    /\ env \in EnvValues
    /\ nextPid \in 1..(MaxSpawns + 1)

\* =================================================== the device inventory
\* pub const CUDA_OVERHEAD: u64 = 500 * 1024 * 1024, in MiB
CUDA_OVERHEAD == 500
\* get_all_cuda_devices: if ordinal > 100
WARN_ORDINAL == 100
\* u64 arithmetic wraps at 2^64 bytes; the model counts MiB and wraps at 2^28
WordMod == 2^28
\* memory_info.total a device may report, MiB: 0, less than the overhead,
\* 8 GiB, 24 GiB
MemValues == {0, 256, 8 * 1024, 24 * 1024}
\* ordinals of the hardware
HwOrdinals == 0..(MaxHw - 1)
\* ordinals a caller may name: those of the hardware and one it does not have
ReqOrdinals == HwOrdinals \cup {5}

SeqsUpTo(S, n) == UNION {[1..k -> S] : k \in 0..n}

\* the Supervisor before LlamaCppServer::new, where DevSpec leaves it
SupIdle ==
    /\ pc = "idle"
    /\ phase = "status"
    /\ elapsed = 0
    /\ attempts = 0
    /\ tcResult = "none"
    /\ idResult = "none"
    /\ probeResult = "none"
    /\ kret = "none"
    /\ server_process = NoPid
    /\ local_model_path = "m1"
    /\ use_gpu = TRUE
    /\ env = Unset
    /\ original = Unset
    /\ pstate = [p \in Pids |-> "none"]
    /\ pmodel = [p \in Pids |-> "m1"]
    /\ listener = NoPid
    /\ orphanProtected = FALSE
    /\ nextPid = 1
    /\ result = "none"
    /\ lastOp = "none"
    /\ status1 = "none"
    /\ id1 = "none"
    /\ callSpawns = 0
    /\ callKills = 0
    /\ killsAtSpawn = 0
    /\ handle0 = NoPid
    /\ env0 = Unset
    /\ envAtSpawn = Unset
    /\ sinceKill = SettleCap
    /\ sigRefused = FALSE
    /\ killResult = "none"
    /\ posts = 0
    /\ resModel = "none"
    /\ callPosts = 0
    /\ callProbes = 0

\* CudaDeviceMap::new on some hardware, error_on_gpu_error set within the crate
DevInit ==
    /\ SupIdle
    /\ DuoIdle
    /\ dpc = "new"
    /\ hwMem \in [HwOrdinals -> MemValues]
    /\ device_count \in 0..MaxHw
    /\ overflowChecks \in BOOLEAN
    /\ use_cuda_devices \in SeqsUpTo(ReqOrdinals, MaxReqLen)
    /\ mainReq \in {NoOrdinal} \cup ReqOrdinals
    /\ main_gpu = mainReq
    /\ error_on_gpu_error \in BOOLEAN
    /\ cuda_devices = <<>>
    /\ total_vram_bytes = 0
    /\ ordinal = 0
    /\ qidx = 1
    /\ warned = FALSE
    /\ dresult = "none"
    /\ queried = <<>>
    /\ gpu_devices = <<>>

\* u64 subtraction in a build without overflow checks
WrappingSub(a, b) == (a - b) % WordMod

\* u64 addition in a build without overflow checks
WrappingAdd(a, b) == (a + b) % WordMod

\* nvml.device_by_index(ordinal) and memory_info() succeed
DeviceByIndexOk(o) == o \in DOMAIN hwMem

\* CudaDevice::new: Ok(device), Err, or the panic of an overflowing subtraction
CudaDeviceNew(o) ==
    IF ~DeviceByIndexOk(o) THEN [kind |-> "Err", ordinal |-> o, available_vram_bytes |-> 0]
    ELSE IF hwMem[o] = 0 THEN [kind |-> "Err", ordinal |-> o, available_vram_bytes |-> 0]
    ELSE IF hwMem[o] < CUDA_OVERHEAD /\ overflowChecks
         THEN [kind |-> "Panic", ordinal |-> o, available_vram_bytes |-> 0]
    ELSE [kind |-> "Ok", ordinal |-> o,
          available_vram_bytes |-> WrappingSub(hwMem[o], CUDA_OVERHEAD)]

\* the CudaDevice of an Ok result
Device(r) == [ordinal |-> r.ordinal, available_vram_bytes |-> r.available_vram_bytes]

\* max_by_key keeping the first of equal maxima
RECURSIVE MaxByKeyFirst(_, _, _)
MaxByKeyFirst(devs, i, best) ==
    IF i > Len(devs) THEN best
    ELSE MaxByKeyFirst(devs, i + 1,
            IF devs[i].available_vram_bytes > devs[best].available_vram_bytes
            THEN i ELSE best)

\* Iterator::max_by_key(|d| d.available_vram_bytes) from position i on, best so
\* far at position best: a later element replaces an equal one
RECURSIVE MaxByKey(_, _, _)
MaxByKey(devs, i, best) ==
    IF i > Len(devs) THEN best
    ELSE MaxByKey(devs, i + 1,
            IF devs[best].available_vram_bytes > devs[i].available_vram_bytes
            THEN best ELSE i)

HasOrdinal(devs, o) == \E i \in 1..Len(devs) : devs[i].ordinal = o

\* main_gpu returning the ordinal set by the user without looking for it
MainGpuUnchecked(mg, devs, strict) ==
    IF mg # NoOrdinal THEN [ok |-> TRUE, ordinal |-> mg]
    ELSE IF Len(devs) = 0 THEN [ok |-> FALSE, ordinal |-> NoOrdinal]
    ELSE [ok |-> TRUE, ordinal |-> devs[MaxByKey(devs, 2, 1)].ordinal]

\* main_gpu never failing on an ordinal it does not find
MainGpuAlwaysFallsBack(mg, devs, strict) ==
    IF mg # NoOrdinal /\ HasOrdinal(devs, mg) THEN [ok |-> TRUE, ordinal |-> mg]
    ELSE IF Len(devs) = 0 THEN [ok |-> FALSE, ordinal |-> NoOrdinal]
    ELSE [ok |-> TRUE, ordinal |-> devs[MaxByKey(devs, 2, 1)].ordinal]

\* CudaDeviceMap::main_gpu
MainGpu(mg, devs, strict) ==
    IF mg # NoOrdinal /\ HasOrdinal(devs, mg) THEN [ok |-> TRUE, ordinal |-> mg]
    ELSE IF mg # NoOrdinal /\ strict THEN [ok |-> FALSE, ordinal |-> NoOrdinal]
    ELSE IF Len(devs) = 0 THEN [ok |-> FALSE, ordinal |-> NoOrdinal]
    ELSE [ok |-> TRUE, ordinal |-> devs[MaxByKey(devs, 2, 1)].ordinal]

\* the sum leaving out the first device
RECURSIVE SumVramSkipsFirst(_, _)
SumVramSkipsFirst(devs, i) ==
    IF i > Len(devs) THEN 0
    ELSE IF i = 1 THEN SumVramSkipsFirst(devs, 2)
    ELSE WrappingAdd(devs[i].available_vram_bytes, SumVramSkipsFirst(devs, i + 1))

\* cuda_devices.iter().map(|d| d.available_vram_bytes).sum(), from position i
RECURSIVE SumVram(_, _)
SumVram(devs, i) ==
    IF i > Len(devs) THEN 0
    ELSE WrappingAdd(devs[i].available_vram_bytes, SumVram(devs, i + 1))

\* initialize, up to the choice between the two ways of discovery
Initialize ==
    /\ dpc = "new"
    /\ \E nvmlOk \in BOOLEAN :
         IF ~nvmlOk
         THEN /\ dresult' = "ErrNvml"
              /\ dpc' = "done"
         ELSE /\ dpc' = IF use_cuda_devices = <<>> THEN "enumerate" ELSE "query"
              /\ UNCHANGED dresult
    /\ UNCHANGED <<hwMem, device_count, overflowChecks, use_cuda_devices, main_gpu,
                   mainReq, error_on_gpu_error, cuda_devices, total_vram_bytes,
                   ordinal, qidx, warned, queried>>
    /\ UNCHANGED gpu_devices
    /\ UNCHANGED <<supVars, envVars, procVars, histVars, killVars, reqVars,
                   callVars, duoVars>>

\* get_all_cuda_devices: one evaluation of the while condition and, if it
\* holds, one pass of the body; otherwise the rest of the function
GetAllCudaDevices ==
    /\ dpc = "enumerate"
    /\ IF Len(cuda_devices) < device_count
       THEN /\ ordinal <= MaxOrdinal
            /\ queried' = Append(queried, ordinal)
            /\ IF CudaDeviceNew(ordinal).kind = "Panic"
               THEN /\ dresult' = "Panic"
                    /\ dpc' = "done"
                    /\ UNCHANGED <<cuda_devices, warned, ordinal>>
               ELSE /\ cuda_devices' =
                         IF CudaDeviceNew(ordinal).kind = "Ok"
                         THEN Append(cuda_devices, Device(CudaDeviceNew(ordinal)))
                         ELSE cuda_devices
                    /\ warned' = (warned \/ ordinal > WARN_ORDINAL)
                    /\ ordinal' = ordinal + 1
                    /\ UNCHANGED <<dpc, dresult>>
       ELSE /\ IF Len(cuda_devices) = 0
               THEN /\ dresult' = "ErrNoDevices"
                    /\ dpc' = "done"
               ELSE /\ dpc' = "resolve"
                    /\ UNCHANGED dresult
            /\ UNCHANGED <<cuda_devices, warned, ordinal, queried>>
    /\ UNCHANGED <<hwMem, device_count, overflowChecks, use_cuda_devices, main_gpu,
                   mainReq, error_on_gpu_error, total_vram_bytes, qidx>>
    /\ UNCHANGED gpu_devices
    /\ UNCHANGED <<supVars, envVars, procVars, histVars, killVars, reqVars,
                   callVars, duoVars>>

\* the for loop bailing out on a failed query whatever error_on_gpu_error is
QueryRequestedAlwaysBails ==
    /\ dpc = "query"
    /\ queried' = IF qidx <= Len(use_cuda_devices)
                   THEN Append(queried, use_cuda_devices[qidx]) ELSE queried
    /\ IF qidx <= Len(use_cuda_devices)
       THEN CASE CudaDeviceNew(use_cuda_devices[qidx]).kind = "Ok" ->
                    /\ cuda_devices' = Append(cuda_devices,
                                          Device(CudaDeviceNew(use_cuda_devices[qidx])))
                    /\ qidx' = qidx + 1
                    /\ UNCHANGED <<dpc, dresult>>
              [] CudaDeviceNew(use_cuda_devices[qidx]).kind = "Err" ->
                    /\ dresult' = "ErrDevice"
                    /\ dpc' = "done"
                    /\ UNCHANGED <<cuda_devices, qidx>>
              [] CudaDeviceNew(use_cuda_devices[qidx]).kind = "Panic" ->
                    /\ dresult' = "Panic"
                    /\ dpc' = "done"
                    /\ UNCHANGED <<cuda_devices, qidx>>
       ELSE /\ dpc' = "resolve"
            /\ UNCHANGED <<cuda_devices, qidx, dresult>>
    /\ UNCHANGED <<hwMem, device_count, overflowChecks, use_cuda_devices, main_gpu,
                   mainReq, error_on_gpu_error, total_vram_bytes, ordinal, warned>>
    /\ UNCHANGED gpu_devices
    /\ UNCHANGED <<supVars, envVars, procVars, histVars, killVars, reqVars,
                   callVars, duoVars>>

\* the for loop going on after a failed query whatever error_on_gpu_error is
QueryRequestedNeverBails ==
    /\ dpc = "query"
    /\ queried' = IF qidx <= Len(use_cuda_devices)
                   THEN Append(queried, use_cuda_devices[qidx]) ELSE queried
    /\ IF qidx <= Len(use_cuda_devices)
       THEN CASE CudaDeviceNew(use_cuda_devices[qidx]).kind = "Ok" ->
                    /\ cuda_devices' = Append(cuda_devices,
                                          Device(CudaDeviceNew(use_cuda_devices[qidx])))
                    /\ qidx' = qidx + 1
                    /\ UNCHANGED <<dpc, dresult>>
              [] CudaDeviceNew(use_cuda_devices[qidx]).kind = "Err" ->
                    IF FALSE
                    THEN /\ dresult' = "ErrDevice"
                         /\ dpc' = "done"
                         /\ UNCHANGED <<cuda_devices, qidx>>
                    ELSE /\ qidx' = qidx + 1
                         /\ UNCHANGED <<cuda_devices, dpc, dresult>>
              [] CudaDeviceNew(use_cuda_devices[qidx]).kind = "Panic" ->
                    /\ dresult' = "Panic"
                    /\ dpc' = "done"
                    /\ UNCHANGED <<cuda_devices, qidx>>
       ELSE /\ dpc' = "resolve"
            /\ UNCHANGED <<cuda_devices, qidx, dresult>>
    /\ UNCHANGED <<hwMem, device_count, overflowChecks, use_cuda_devices, main_gpu,
                   mainReq, error_on_gpu_error, total_vram_bytes, ordinal, warned>>
    /\ UNCHANGED gpu_devices
    /\ UNCHANGED <<supVars, envVars, procVars, histVars, killVars, reqVars,
                   callVars, duoVars>>

\* initialize: one pass of the for loop over use_cuda_devices, or its end
QueryRequested ==
    /\ dpc = "query"
    /\ queried' = IF qidx <= Len(use_cuda_devices)
                   THEN Append(queried, use_cuda_devices[qidx]) ELSE queried
    /\ IF qidx <= Len(use_cuda_devices)
       THEN CASE CudaDeviceNew(use_cuda_devices[qidx]).kind = "Ok" ->
                    /\ cuda_devices' = Append(cuda_devices,
                                          Device(CudaDeviceNew(use_cuda_devices[qidx])))
                    /\ qidx' = qidx + 1
                    /\ UNCHANGED <<dpc, dresult>>
              [] CudaDeviceNew(use_cuda_devices[qidx]).kind = "Err" ->
                    IF error_on_gpu_error
                    THEN /\ dresult' = "ErrDevice"
                         /\ dpc' = "done"
                         /\ UNCHANGED <<cuda_devices, qidx>>
                    ELSE /\ qidx' = qidx + 1
                         /\ UNCHANGED <<cuda_devices, dpc, dresult>>
              [] CudaDeviceNew(use_cuda_devices[qidx]).kind = "Panic" ->
                    /\ dresult' = "Panic"
                    /\ dpc' = "done"
                    /\ UNCHANGED <<cuda_devices, qidx>>
       ELSE /\ dpc' = "resolve"
            /\ UNCHANGED <<cuda_devices, qidx, dresult>>
    /\ UNCHANGED <<hwMem, device_count, overflowChecks, use_cuda_devices, main_gpu,
                   mainReq, error_on_gpu_error, total_vram_bytes, ordinal, warned>>
    /\ UNCHANGED gpu_devices
    /\ UNCHANGED <<supVars, envVars, procVars, histVars, killVars, reqVars,
                   callVars, duoVars>>

\* initialize without its check for an empty inventory
ResolveNoEmptyCheck ==
    /\ dpc = "resolve"
    /\ dpc' = "done"
    /\ IF FALSE
       THEN /\ dresult' = "ErrNoDevices"
            /\ UNCHANGED <<main_gpu, total_vram_bytes>>
       ELSE IF ~MainGpu(main_gpu, cuda_devices, error_on_gpu_error).ok
       THEN /\ dresult' = "ErrMainGpu"
            /\ UNCHANGED <<main_gpu, total_vram_bytes>>
       ELSE /\ main_gpu' = MainGpu(main_gpu, cuda_devices, error_on_gpu_error).ordinal
            /\ total_vram_bytes' = SumVram(cuda_devices, 1)
            /\ dresult' = "Ok"
    /\ UNCHANGED <<hwMem, device_count, overflowChecks, use_cuda_devices, mainReq,
                   error_on_gpu_error, cuda_devices, ordinal, qidx, warned, queried>>
    /\ UNCHANGED gpu_devices
    /\ UNCHANGED <<supVars, envVars, procVars, histVars, killVars, reqVars,
                   callVars, duoVars>>

\* initialize, from the check for an empty inventory to its return
Resolve ==
    /\ dpc = "resolve"
    /\ dpc' = "done"
    /\ IF Len(cuda_devices) = 0
       THEN /\ dresult' = "ErrNoDevices"
            /\ UNCHANGED <<main_gpu, total_vram_bytes>>
       ELSE IF ~MainGpu(main_gpu, cuda_devices, error_on_gpu_error).ok
       THEN /\ dresult' = "ErrMainGpu"
            /\ UNCHANGED <<main_gpu, total_vram_bytes>>
       ELSE /\ main_gpu' = MainGpu(main_gpu, cuda_devices, error_on_gpu_error).ordinal
            /\ total_vram_bytes' = SumVram(cuda_devices, 1)
            /\ dresult' = "Ok"
    /\ UNCHANGED <<hwMem, device_count, overflowChecks, use_cuda_devices, mainReq,
                   error_on_gpu_error, cuda_devices, ordinal, qidx, warned, queried>>
    /\ UNCHANGED gpu_devices
    /\ UNCHANGED <<supVars, envVars, procVars, histVars, killVars, reqVars,
                   callVars, duoVars>>

\* CudaDevice::to_generic_gpu
ToGenericGpu(d) ==
    [ordinal |-> d.ordinal,
     available_vram_bytes |-> d.available_vram_bytes,
     allocated_bytes |-> 0,
     allocated_buffer_bytes |-> 0,
     allocated_layers |-> 0,
     is_main_gpu |-> FALSE]

\* for gpu in &mut gpu_devices: if gpu.ordinal == main_gpu, is_main_gpu = true
FlagMainGpu(gpus, mg) ==
    [i \in 1..Len(gpus) |->
        IF gpus[i].ordinal = mg THEN [gpus[i] EXCEPT !.is_main_gpu = TRUE]
        ELSE gpus[i]]

\* to_generic_gpu_devices on an initialized map
ToGenericGpuDevices ==
    /\ dpc = "done"
    /\ dresult = "Ok"
    /\ IF MainGpu(main_gpu, cuda_devices, error_on_gpu_error).ok
       THEN /\ gpu_devices' =
                 FlagMainGpu([i \in 1..Len(cuda_devices) |-> ToGenericGpu(cuda_devices[i])],
                             MainGpu(main_gpu, cuda_devices, error_on_gpu_error).ordinal)
            /\ dpc' = "generic"
       ELSE /\ dpc' = "generic_err"
            /\ UNCHANGED gpu_devices
    /\ UNCHANGED <<hwMem, device_count, overflowChecks, use_cuda_devices, main_gpu,
                   mainReq, error_on_gpu_error, cuda_devices, total_vram_bytes,
                   ordinal, qidx, warned, dresult, queried>>
    /\ UNCHANGED <<supVars, envVars, procVars, histVars, killVars, reqVars,
                   callVars, duoVars>>

DevNext ==
    \/ Initialize
    \/ GetAllCudaDevices
    \/ QueryRequested
    \/ Resolve
    \/ ToGenericGpuDevices

DevSpec == DevInit /\ [][DevNext]_vars

\* ====================================================== two Supervisors
\* The first Supervisor has use_gpu false and is the one of Spec; the second
\* has use_gpu set.  Each runs one start_server, on threads of one OS
\* process, so that their steps interleave; CUDA_VISIBLE_DEVICES (env) is
\* the one of the process.  The endpoint of the second Supervisor and the
\* server behind it are not followed: its connect_with_timeouts returns
\* either value.
DuoInit ==
    /\ SupInit
    /\ DevIdle
    /\ ~use_gpu
    /\ pc2 = "idle"
    /\ result2 = "none"
    /\ envAtSpawn2 = Unset
    /\ envBefore = env

\* the one start_server of the first Supervisor
StartServerFirst == lastOp = "none" /\ StartServer

\* the second Supervisor enters start_server
StartServer2 ==
    /\ pc2 = "idle"
    /\ result2 = "none"
    /\ pc2' = "status"
    /\ UNCHANGED <<result2, envAtSpawn2, envBefore>>
    /\ UNCHANGED <<supVars, envVars, procVars, histVars, killVars, reqVars,
                   callVars, devVars>>

\* its status check and the match on it; with use_gpu the variable is not
\* touched before the spawn
ConnectStatus2 ==
    /\ pc2 = "status"
    /\ \E r \in {"RunningRequested", "Stopped"} :
          IF r = "RunningRequested"
          THEN /\ result2' = "Ok"
               /\ pc2' = "done"
          ELSE /\ pc2' = "spawn"
               /\ UNCHANGED result2
    /\ UNCHANGED <<envAtSpawn2, envBefore>>
    /\ UNCHANGED <<supVars, envVars, procVars, histVars, killVars, reqVars,
                   callVars, devVars>>

\* its start_server_backend: the child inherits the environment as it is
SpawnBackend2 ==
    /\ pc2 = "spawn"
    /\ \E outcome \in {"ok", "err"} :
          IF outcome = "ok"
          THEN /\ envAtSpawn2' = env
               /\ pc2' = "startup"
               /\ UNCHANGED result2
          ELSE /\ result2' = "Err"
               /\ pc2' = "done"
               /\ UNCHANGED envAtSpawn2
    /\ UNCHANGED envBefore
    /\ UNCHANGED <<supVars, envVars, procVars, histVars, killVars, reqVars,
                   callVars, devVars>>

\* its startup check and the match on it; with use_gpu nothing is restored
ConnectStartup2 ==
    /\ pc2 = "startup"
    /\ \E r \in {"RunningRequested", "Stopped"} :
          IF r = "RunningRequested"
          THEN /\ result2' = "Ok"
               /\ pc2' = "done"
          ELSE /\ pc2' = "kill"
               /\ UNCHANGED result2
    /\ UNCHANGED <<envAtSpawn2, envBefore>>
    /\ UNCHANGED <<supVars, envVars, procVars, histVars, killVars, reqVars,
                   callVars, devVars>>

\* its kill_server_process and panic: kill_all_servers signals every
\* ./llama-server, those of the first Supervisor as well
KillServerProcess2 ==
    /\ pc2 = "kill"
    /\ pstate' = SweepAll(pstate)
    /\ listener' = ListenerAfter(pstate')
    /\ sinceKill' = IF Pgrep # {} THEN 0 ELSE sinceKill
    /\ result2' = "PanicStart"
    /\ pc2' = "done"
    /\ UNCHANGED <<envAtSpawn2, envBefore>>
    /\ UNCHANGED <<supVars, envVars, pmodel, nextPid, orphanProtected, result,
                   lastOp, status1, id1, callSpawns, callKills, killsAtSpawn,
                   handle0, env0, envAtSpawn, killVars, reqVars, callVars, devVars>>

DuoNext ==
    \/ StartServerFirst
    \/ TestConnection
    \/ CheckServerConfig
    \/ MatchStatus
    \/ OverrideEnv
    \/ SpawnBackend
    \/ MatchStartup
    \/ KillTracked
    \/ KillAllServers
    \/ Settle
    \/ ProcBind
    \/ ProcBindFail
    \/ ProcReady
    \/ ProcExit
    \/ StartServer2
    \/ ConnectStatus2
    \/ SpawnBackend2
    \/ ConnectStartup2
    \/ KillServerProcess2

DuoSpec == DuoInit /\ [][DuoNext]_vars

\* ------------------------------------------------------------- properties
\* start_server has returned or panicked and nothing was called since
Ended == pc = "idle" /\ lastOp = "start" /\ result # "none"

OwnAlive == {p \in OwnPids : Alive(p)}

\* C1: a start_server whose status check yields RunningRequested returns Ok
\* at once: it spawns nothing, runs no kill_server_process and leaves
\* server_process as it was when the call began.
C1_IdempotentNoOp ==
    (lastOp = "start" /\ status1 = "RunningRequested") =>
        /\ pc = "idle"
        /\ result = "Ok"
        /\ callSpawns = 0
        /\ callKills = 0
        /\ server_process = handle0

\* a second start_server finds the server it spawned earlier still correct
C1_Witness ==
    /\ Ended
    /\ status1 = "RunningRequested"
    /\ server_process # NoPid
    /\ listener = server_process

\* C2: a start_server whose status check got an answer naming another model
\* has run kill_server_process exactly once before it spawns.
C2_OneKillBeforeSpawn ==
    (lastOp = "start" /\ id1 = "Running" /\ callSpawns >= 1) => killsAtSpawn = 1

\* C3: connect_with_timeouts returns Stopped when test_connection fails,
\* RunningRequested on an answer naming the requested model, Running on an
\* answer naming another model, Stopped when every request failed.
C3_Classification ==
    pc = "match" =>
        /\ (tcResult = "Stopped" => probeResult = "Stopped")
        /\ (tcResult = "Running" /\ idResult = "RunningRequested"
                => probeResult = "RunningRequested")
        /\ (tcResult = "Running" /\ idResult = "Running"
                => probeResult = "Running")
        /\ (tcResult = "Running" /\ idResult = "Stopped"
                => probeResult = "Stopped")

\* the startup check of the last start_server returned Stopped
StartupStopped ==
    Ended /\ callSpawns = 1 /\ phase = "startup" /\ probeResult = "Stopped"

\* C4 as stated: a start_server whose startup check returned Stopped hands an
\* error value to its caller, with every spawned process dead.
C4_ReturnsError ==
    StartupStopped => (result = "Err" /\ OwnAlive = {})

\* C4 as amended: such a start_server ends in a panic, after one
\* kill_server_process that left no spawned process alive and no other
\* process alive except one the OS protects.
C4_PanicsAfterKill ==
    StartupStopped =>
        /\ result = "PanicStart"
        /\ callKills = 1
        /\ OwnAlive = {}
        /\ \A p \in Pids : Alive(p) => (p = OrphanPid /\ orphanProtected)

\* no connection succeeded during the whole startup budget
C4_Witness ==
    /\ StartupStopped
    /\ tcResult = "Stopped"
    /\ elapsed >= START_UP_CHECK_TIME_S * 1000
    /\ pstate[server_process] = "dead"

\* C5: every operation entered on the Supervisor ends, whatever the endpoint
\* does; check_server_config never goes beyond its attempts, test_connection
\* never beyond its budget by more than one sleep, and one call spawns once.
C5_CallTerminates ==
    /\ [](attempts <= CONN_ATTEMPTS /\ callSpawns <= 1)
    /\ [](tcResult = "none" => elapsed < TestDuration(phase) + RetryTimeout(phase))
    /\ (pc \notin {"idle", "dropped"}) ~> (pc \in {"idle", "dropped"})

\* a call that used up the startup budget and then every identity attempt
C5_Witness ==
    /\ Ended
    /\ phase = "startup"
    /\ attempts = CONN_ATTEMPTS
    /\ elapsed >= START_UP_CHECK_TIME_S * 1000

\* C6: with use_gpu false, CUDA_VISIBLE_DEVICES is what it was before the
\* call once start_server has ended, however it ended.
C6_EnvRestored ==
    (Ended /\ ~use_gpu) => env = env0

\* C7: at most one process spawned by the Supervisor is alive.
C7_AtMostOneAlive == Cardinality(OwnAlive) <= 1

\* C8: once the drop is complete no process spawned by the Supervisor is alive.
C8_DropKillsAll == pc = "dropped" => OwnAlive = {}

\* dropped while tracking a process, with an earlier, untracked one as well
C8_Witness ==
    /\ pc = "dropped"
    /\ server_process = 2
    /\ pstate[1] = "dead"
    /\ pstate[2] = "dead"

\* C9: after kill_server_process or the drop has completed, a connection to
\* the endpoint fails, so test_connection reports Stopped.
C9_StoppedAfterTerminate ==
    (lastOp \in {"kill", "drop"} /\ pc \in {"idle", "dropped"}) => ~ConnectOk

\* C10: a start_server fails after the spawn only when the startup budget is
\* used up (here: on an endpoint that never answered with another model).
C10_FailsOnlyAtBudget ==
    (Ended /\ result = "PanicStart" /\ idResult # "Running") =>
        elapsed >= START_UP_CHECK_TIME_S * 1000

\* C11: once kill_server_process has completed the Supervisor tracks no
\* process: server_process is None until the next spawn.
C11_NoHandleAfterKill ==
    (killResult = "Returned" /\ pc \in {"idle", "dropped"}) => server_process = NoPid

\* C12: a kill_server_process during which the OS refused a signal does not
\* return normally: the failure reaches the caller.
C12_RefusalSurfaced ==
    (sigRefused /\ killResult # "none") => killResult = "Failed"

\* ----------------------------------------- properties of the inventory
\* initialize has returned Ok(())
DevOk == dpc = "done" /\ dresult = "Ok"

StoredOrdinals == {cuda_devices[i].ordinal : i \in 1..Len(cuda_devices)}

RequestedOrdinals == {use_cuda_devices[i] : i \in 1..Len(use_cuda_devices)}

\* the greatest available_vram_bytes in the inventory
MaxAvailable(i) ==
    \A j \in 1..Len(cuda_devices) :
        cuda_devices[j].available_vram_bytes <= cuda_devices[i].available_vram_bytes

\* C13: when every requested ordinal can be queried, the inventory holds
\* exactly the requested ordinals and no ordinal twice.
C13_ExactlyRequested ==
    (DevOk /\ use_cuda_devices # <<>>
           /\ \A o \in RequestedOrdinals : CudaDeviceNew(o).kind = "Ok") =>
        /\ StoredOrdinals = RequestedOrdinals
        /\ \A i, j \in 1..Len(cuda_devices) :
              i # j => cuda_devices[i].ordinal # cuda_devices[j].ordinal

\* C14: every stored device has total memory of at least the overhead and
\* available memory = total - overhead.
C14_AvailableMemory ==
    \A i \in 1..Len(cuda_devices) :
        /\ hwMem[cuda_devices[i].ordinal] >= CUDA_OVERHEAD
        /\ cuda_devices[i].available_vram_bytes
              = hwMem[cuda_devices[i].ordinal] - CUDA_OVERHEAD

C16_StopsAfterWarning == warned => dpc # "enumerate"

\* C17: after Ok(()) main_gpu is the ordinal of a stored device.
C17_MainGpuStored == DevOk => main_gpu \in StoredOrdinals

\* the main GPU set by the user is not there and the map is lenient
C17_Witness ==
    /\ DevOk
    /\ mainReq = 5
    /\ ~error_on_gpu_error
    /\ main_gpu # mainReq

\* use_cuda_devices = [5] on hardware with two good devices 0 and 1
OnlyFiveRequested ==
    /\ dpc = "done"
    /\ dresult # "ErrNvml"
    /\ use_cuda_devices = <<5>>
    /\ \A o \in {0, 1} : CudaDeviceNew(o).kind = "Ok"

\* C18 as stated: strict fails on device 5, lenient succeeds with {0, 1}.
C18_LenientFallsBack ==
    OnlyFiveRequested =>
        IF error_on_gpu_error
        THEN dresult = "ErrDevice"
        ELSE dresult = "Ok" /\ StoredOrdinals = {0, 1}

\* C18 as amended: strict fails on device 5, lenient skips it and fails for
\* want of any device.
C18_LenientNoDevices ==
    OnlyFiveRequested =>
        /\ cuda_devices = <<>>
        /\ IF error_on_gpu_error THEN dresult = "ErrDevice"
                                 ELSE dresult = "ErrNoDevices"

C18_Witness == OnlyFiveRequested /\ ~error_on_gpu_error /\ dresult = "ErrNoDevices"

\* devices of 24 GiB and 8 GiB, all enumerated, no main GPU set
TwentyFourAndEight ==
    /\ DevOk
    /\ mainReq = NoOrdinal
    /\ use_cuda_devices = <<>>
    /\ Len(cuda_devices) = 2
    /\ hwMem[cuda_devices[1].ordinal] = 24 * 1024
    /\ hwMem[cuda_devices[2].ordinal] = 8 * 1024

\* C19 as stated: available 23.5 GiB and 7.5 GiB, main GPU the 24 GiB device,
\* total 31 GiB.
C19_Overhead512 ==
    TwentyFourAndEight =>
        /\ cuda_devices[1].available_vram_bytes = 24 * 1024 - 512
        /\ cuda_devices[2].available_vram_bytes = 8 * 1024 - 512
        /\ main_gpu = cuda_devices[1].ordinal
        /\ total_vram_bytes = 31 * 1024

\* C19 as amended: available 24 GiB - 500 MiB and 8 GiB - 500 MiB, main GPU
\* the 24 GiB device, total 32 GiB - 1000 MiB.
C19_Overhead500 ==
    TwentyFourAndEight =>
        /\ cuda_devices[1].available_vram_bytes = 24 * 1024 - 500
        /\ cuda_devices[2].available_vram_bytes = 8 * 1024 - 500
        /\ main_gpu = cuda_devices[1].ordinal
        /\ total_vram_bytes = 32 * 1024 - 1000

C19_Witness == TwentyFourAndEight /\ total_vram_bytes > 0 /\ device_count = 2

\* initialize has come to main_gpu() and returned
Resolved == dpc = "done" /\ dresult \in {"Ok", "ErrMainGpu"}

\* C20: a main GPU set by the user is returned as it is when stored; when it
\* is not stored, strict fails and lenient picks a stored device of greatest
\* available memory.
C20_ExplicitMainGpu ==
    (Resolved /\ mainReq # NoOrdinal) =>
        IF mainReq \in StoredOrdinals
        THEN dresult = "Ok" /\ main_gpu = mainReq
        ELSE IF error_on_gpu_error
        THEN dresult = "ErrMainGpu"
        ELSE /\ dresult = "Ok"
             /\ \E i \in 1..Len(cuda_devices) :
                   cuda_devices[i].ordinal = main_gpu /\ MaxAvailable(i)

\* strict, and the main GPU set by the user is not among the stored devices
C20_Witness ==
    /\ Resolved
    /\ mainReq = 5
    /\ error_on_gpu_error
    /\ dresult = "ErrMainGpu"
    /\ cuda_devices # <<>>

\* the devices of the first k requested ordinals whose query returns Ok
RECURSIVE Kept(_)
Kept(k) ==
    IF k = 0 THEN <<>>
    ELSE IF CudaDeviceNew(use_cuda_devices[k]).kind = "Ok"
         THEN Append(Kept(k - 1), Device(CudaDeviceNew(use_cuda_devices[k])))
         ELSE Kept(k - 1)

\* a query made so far returned Err
QueryFailed == \E i \in 1..Len(queried) : CudaDeviceNew(queried[i]).kind = "Err"

\* the for loop over use_cuda_devices has run to its end
LoopDone == dpc \in {"resolve", "done"} /\ dresult \notin {"ErrNvml", "ErrDevice", "Panic"}

\* C21: with use_cuda_devices not empty, the ordinals queried are the
\* requested ones, in their order; strict, a failed query ends initialize
\* with an error at once, and Ok(()) means every requested device is stored;
\* lenient, the loop runs to its end and stores every requested device whose
\* query returned Ok, and no other.
C21_RequestedQueries ==
    use_cuda_devices # <<>> =>
        /\ Len(queried) <= Len(use_cuda_devices)
        /\ \A i \in 1..Len(queried) : queried[i] = use_cuda_devices[i]
        /\ (error_on_gpu_error /\ QueryFailed) =>
                (dpc = "done" /\ dresult = "ErrDevice")
        /\ (error_on_gpu_error /\ DevOk) =>
                (queried = use_cuda_devices /\ Len(cuda_devices) = Len(use_cuda_devices))
        /\ (~error_on_gpu_error => dresult # "ErrDevice")
        /\ LoopDone =>
                (queried = use_cuda_devices /\ cuda_devices = Kept(Len(use_cuda_devices)))

\* lenient: one requested device failed and was skipped, another is stored
C21_Witness ==
    /\ DevOk
    /\ ~error_on_gpu_error
    /\ QueryFailed
    /\ Len(use_cuda_devices) = 2
    /\ Len(cuda_devices) = 1

\* C22: Ok(()) is never returned with an empty inventory, and a discovery
\* that ran to its end with no device returns "No CUDA devices found".
C22_NeverEmptyOk ==
    /\ DevOk => cuda_devices # <<>>
    /\ (dpc = "done" /\ cuda_devices = <<>>
           /\ dresult \notin {"ErrNvml", "ErrDevice", "Panic"}) =>
            dresult = "ErrNoDevices"

\* lenient, and none of the requested devices of the hardware could be queried
C22_Witness ==
    /\ dpc = "done"
    /\ dresult = "ErrNoDevices"
    /\ ~error_on_gpu_error
    /\ use_cuda_devices # <<>>
    /\ RequestedOrdinals \subseteq HwOrdinals
    /\ mainReq # NoOrdinal

\* the sum of available_vram_bytes over the stored devices, as an integer
RECURSIVE SumAvailable(_, _)
SumAvailable(devs, i) ==
    IF i > Len(devs) THEN 0
    ELSE devs[i].available_vram_bytes + SumAvailable(devs, i + 1)

\* C23: after Ok(()) total_vram_bytes is the sum of the available memory of
\* the stored devices.
C23_TotalIsSum ==
    DevOk => total_vram_bytes = SumAvailable(cuda_devices, 1)

\* ------------------------------------------- properties of the probe
\* C24: check_server_config sends a request only in a connect_with_timeouts
\* whose test_connection returned Running; when test_connection returns
\* Stopped the result is Stopped and no request was sent.
C24_IdentityAfterTransport ==
    /\ posts > 0 => tcResult = "Running"
    /\ (pc = "match" /\ tcResult = "Stopped") =>
            (probeResult = "Stopped" /\ posts = 0)

\* the status check used up its budget without one successful connect
C24_Witness ==
    /\ pc = "match"
    /\ phase = "status"
    /\ tcResult = "Stopped"
    /\ elapsed >= STATUS_CHECK_TIME_MS
    /\ posts = 0

\* C25: check_server_config sends at most 3 requests in one probe, a further
\* one only after a failed one; the first Ok response ends it and alone
\* decides its value; it returns Stopped exactly when 3 requests failed.
C25_AtMostThreeRequests ==
    /\ posts <= CONN_ATTEMPTS
    /\ posts = attempts + (IF resModel = "none" THEN 0 ELSE 1)
    /\ (resModel # "none" => pc # "check_server_config")
    /\ (pc = "match" /\ tcResult = "Running") =>
            /\ (resModel # "none" =>
                    idResult = CompareModel(local_model_path, resModel))
            /\ (idResult = "Stopped" <=>
                    (attempts = CONN_ATTEMPTS /\ resModel = "none"))

\* two requests failed and the third was answered
C25_Witness ==
    /\ pc = "match"
    /\ tcResult = "Running"
    /\ posts = CONN_ATTEMPTS
    /\ resModel # "none"

\* C26: once kill_server_process has completed, no ./llama-server process is
\* alive, whoever spawned it.
C26_NoneAliveAfterKill ==
    (killResult = "Returned" /\ pc \in {"idle", "dropped"}) => Pgrep = {}

\* C27: a process is spawned only when both sleeps that end
\* kill_server_process (the one of kill_all_servers and its own) have passed
\* since the last termination signal.
C27_SettleBeforeSpawn ==
    [][nextPid' # nextPid => sinceKill >= 2 * KILL_SLEEP_MS]_vars

\* a process just spawned by a start_server whose status check began right
\* after a kill_server_process that had signalled the tracked process
C27_Witness ==
    /\ pc = "test_connection"
    /\ phase = "startup"
    /\ elapsed = 0
    /\ server_process = 2
    /\ pstate[1] = "dead"
    /\ sinceKill >= 2 * KILL_SLEEP_MS
    /\ sinceKill < SettleCap

\* C28: after Ok(RunningRequested), server_process is the process spawned by
\* this call if it spawned one, and what it was before the call otherwise.
C28_HandleIsSpawned ==
    (Ended /\ result = "Ok") =>
        IF callSpawns = 0
        THEN server_process = handle0
        ELSE callSpawns = 1 /\ server_process = nextPid - 1

\* the call replaced the handle of an earlier call by the process it spawned
C28_Witness ==
    /\ Ended
    /\ result = "Ok"
    /\ callSpawns = 1
    /\ handle0 = 1
    /\ server_process = 2

\* C29: with use_gpu set, start_server neither reads nor writes
\* CUDA_VISIBLE_DEVICES: the value is the one before the call at every point
\* of the call and after it, and the spawned child inherits it.
C29_EnvUntouchedWithGpu ==
    (use_gpu /\ lastOp = "start") =>
        /\ env = env0
        /\ original = Unset
        /\ (callSpawns = 1 => envAtSpawn = env0)

\* the call failed after its spawn, with the variable set
C29_Witness ==
    /\ use_gpu
    /\ Ended
    /\ result = "PanicStart"
    /\ callSpawns = 1
    /\ env = "0"

\* C30: with use_gpu false, a start_server that spawned and succeeded had
\* CUDA_VISIBLE_DEVICES empty at the spawn and leaves it as it was before
\* the call: the same value if it was set, unset if it was unset.
C30_EnvRoundTrip ==
    (Ended /\ result = "Ok" /\ callSpawns = 1 /\ ~use_gpu) =>
        (envAtSpawn = "" /\ env = env0)

\* C31: one start_server spawns at most one process, calls
\* connect_with_timeouts at most twice and sends at most 6 requests; it has
\* spawned exactly when it is in its second connect_with_timeouts, and the
\* spawn comes after the match on the first.
C31_OneSpawnTwoProbes ==
    lastOp = "start" =>
        /\ callSpawns <= 1
        /\ callProbes <= 2
        /\ callPosts <= 2 * CONN_ATTEMPTS
        /\ (callSpawns = 1 <=> callProbes = 2)
        /\ (callSpawns = 1 => (status1 # "none" /\ phase = "startup"))

\* both checks of one call sent their three requests
C31_Witness ==
    /\ Ended
    /\ callSpawns = 1
    /\ callProbes = 2
    /\ callPosts = 2 * CONN_ATTEMPTS

\* the last start_server panicked after its spawn: its kill_server_process
\* has signalled the process it spawned, which is tracked ever since
FailedStartupKilled == result \in {"PanicStart", "PanicModel"}

\* C33: a kill_server_process called after a failed startup (terminate or
\* the drop) sends no signal to the tracked pid, which the failed
\* start_server has signalled already.
C33_NoSecondSignal ==
    [][(pc = "kill_tracked" /\ pc' = "kill_all_servers"
            /\ lastOp \in {"kill", "drop"} /\ FailedStartupKilled)
        => server_process = NoPid]_vars

\* to_generic_gpu_devices has returned Ok(gpu_devices)
GenericOk == dpc = "generic"

MainFlagged == {i \in 1..Len(gpu_devices) : gpu_devices[i].is_main_gpu}

\* C34: to_generic_gpu_devices returns one device per stored device, with
\* its ordinal and available memory, and exactly one of them has is_main_gpu
\* set: the one whose ordinal is main_gpu.
C34_OneMainGpu ==
    GenericOk =>
        /\ Len(gpu_devices) = Len(cuda_devices)
        /\ \A i \in 1..Len(gpu_devices) :
              /\ gpu_devices[i].ordinal = cuda_devices[i].ordinal
              /\ gpu_devices[i].available_vram_bytes
                    = cuda_devices[i].available_vram_bytes
        /\ Cardinality(MainFlagged) = 1
        /\ \A i \in MainFlagged : gpu_devices[i].ordinal = main_gpu

\* C32: the child of the second Supervisor (use_gpu set) inherits
\* CUDA_VISIBLE_DEVICES as it was before either call, and once both calls
\* have returned Ok the variable has that value again.
C32_InterleavedEnv ==
    /\ pc2 \in {"startup", "kill"} => envAtSpawn2 = envBefore
    /\ (Ended /\ result = "Ok" /\ pc2 = "done" /\ result2 = "Ok") =>
            env = envBefore

====
